---- MODULE Spec2Model ----
(***************************************************************************)
(* A model of src/parser.py: load_data, the generator that turns the lines  *)
(* of a tab-delimited 3DTS score file into documents, and _inspect_file,    *)
(* the pre-pass that counts the lines.                                      *)
(*                                                                         *)
(* Text is a sequence of one-character strings, so that strip, split,       *)
(* replace, int() and float() are computed character by character.          *)
(***************************************************************************)
EXTENDS Integers, Sequences, FiniteSets, TLC

VARIABLES
    exists,      \* os.path.exists(input_file)
    file,        \* the characters of the input file (<<>> when it does not exist)
    pc,          \* where the caller and the generator are
    rerun,       \* TRUE in the second run over the same file
    requests,    \* history: next() calls made on the current generator
    file_lines,  \* load_data's local file_lines
    pos,         \* lines the iterator of the open file has handed out
    count,       \* load_data's local count
    skipped,     \* load_data's local skipped
    time_left,   \* load_data's local time_left, in whole seconds
    out,         \* the documents the consumer received from the current generator
    prevOut,     \* the documents the consumer received from the previous generator
    log,         \* what _logger received since the current generator was made
    outAt,       \* history: for each delivered document, the number of its line
    skippedAt,   \* history: for each entry of skipped, the number of its line
    readReq      \* history: for each line read, the request that read it

vars == <<exists, file, pc, rerun, requests, file_lines, pos, count, skipped,
          time_left, out, prevOut, log, outAt, skippedAt, readReq>>

----------------------------------------------------------------------------
(* Bounds *)

MaxLines == 2

MaxElapsed == 1

----------------------------------------------------------------------------
(* Program constants *)

SOURCE_NAME == "3dts"

DELIMITER == "\t"

ProgressEvery == 10000

NFields == 9

----------------------------------------------------------------------------
(* str methods *)

Whitespace == {" ", "\t", "\n", "\r"}

RECURSIVE LStrip(_)
LStrip(s) ==
    IF s # <<>> /\ Head(s) \in Whitespace THEN LStrip(Tail(s)) ELSE s

RECURSIVE RStrip(_)
RStrip(s) ==
    IF s # <<>> /\ s[Len(s)] \in Whitespace
    THEN RStrip(SubSeq(s, 1, Len(s) - 1))
    ELSE s

Strip(s) == RStrip(LStrip(s))

StartsWith(s, p) == Len(s) >= Len(p) /\ SubSeq(s, 1, Len(p)) = p

RECURSIVE Split(_, _)
Split(s, d) ==
    IF s = <<>> THEN << <<>> >>
    ELSE LET rest == Split(Tail(s), d) IN
         IF Head(s) = d
         THEN << <<>> >> \o rest
         ELSE << <<Head(s)>> \o Head(rest) >> \o Tail(rest)

RECURSIVE Replace(_, _, _)
Replace(s, old, new) ==
    IF s = <<>> THEN <<>>
    ELSE IF StartsWith(s, old)
         THEN new \o Replace(SubSeq(s, Len(old) + 1, Len(s)), old, new)
         ELSE <<Head(s)>> \o Replace(Tail(s), old, new)

----------------------------------------------------------------------------
(* int(), float() and the formatting of an int in an f-string *)

DigitChars == <<"0", "1", "2", "3", "4", "5", "6", "7", "8", "9">>

Digits == {DigitChars[i] : i \in DOMAIN DigitChars}

DigitVal(c) == (CHOOSE i \in DOMAIN DigitChars : DigitChars[i] = c) - 1

\* A run of digits in which single underscores may separate digits.
IsDigitGroup(s) ==
    /\ s # <<>>
    /\ \A i \in DOMAIN s : s[i] \in Digits \cup {"_"}
    /\ s[1] \in Digits
    /\ s[Len(s)] \in Digits
    /\ \A i \in 1..(Len(s) - 1) : ~(s[i] = "_" /\ s[i + 1] = "_")

RECURSIVE GroupVal(_, _)
GroupVal(s, acc) ==
    IF s = <<>> THEN acc
    ELSE IF Head(s) = "_" THEN GroupVal(Tail(s), acc)
         ELSE GroupVal(Tail(s), 10 * acc + DigitVal(Head(s)))

RECURSIVE GroupDigits(_)
GroupDigits(s) ==
    IF s = <<>> THEN 0
    ELSE (IF Head(s) = "_" THEN 0 ELSE 1) + GroupDigits(Tail(s))

HasSign(s) == s # <<>> /\ Head(s) \in {"+", "-"}

Unsigned(s) == IF HasSign(s) THEN Tail(s) ELSE s

SignOf(s) == IF s # <<>> /\ Head(s) = "-" THEN -1 ELSE 1

\* int(s): raises ValueError exactly when ok is FALSE.
PyInt(s) ==
    LET t == Strip(s)
        body == Unsigned(t)
    IN  IF IsDigitGroup(body)
        THEN [ok |-> TRUE, val |-> SignOf(t) * GroupVal(body, 0)]
        ELSE [ok |-> FALSE, val |-> 0]

ToLower(c) ==
    CASE c = "A" -> "a" [] c = "E" -> "e" [] c = "F" -> "f" [] c = "I" -> "i"
      [] c = "N" -> "n" [] c = "T" -> "t" [] c = "Y" -> "y" [] OTHER -> c

Lower(s) == [i \in DOMAIN s |-> ToLower(s[i])]

RECURSIVE Pow10(_)
Pow10(n) == IF n <= 0 THEN 1 ELSE 10 * Pow10(n - 1)

\* The value num / 10^scale with no trailing zero in the fraction.
RECURSIVE Normal(_, _)
Normal(num, scale) ==
    IF num = 0 THEN [num |-> 0, scale |-> 0]
    ELSE IF scale < 0 THEN [num |-> num * Pow10(-scale), scale |-> 0]
    ELSE IF scale > 0 /\ num % 10 = 0 THEN Normal(num \div 10, scale - 1)
    ELSE [num |-> num, scale |-> scale]

\* float(s): raises ValueError exactly when ok is FALSE. A finite value is
\* sign * num / 10^scale; "inf", "infinity" and "nan" are accepted in any case.
PyFloat(s) ==
    LET t == Strip(s)
        body == Lower(Unsigned(t))
        bad == [ok |-> FALSE, kind |-> "none", sign |-> 1, num |-> 0, scale |-> 0]
        parts == Split(body, "e")
        mant == Split(parts[1], ".")
        ip == mant[1]
        fp == IF Len(mant) = 2 THEN mant[2] ELSE <<>>
        ex == IF Len(parts) = 2 THEN PyInt(parts[2]) ELSE [ok |-> TRUE, val |-> 0]
        exOk == Len(parts) = 1
                   \/ (Len(parts) = 2 /\ IsDigitGroup(Unsigned(parts[2])))
        mantOk == /\ Len(mant) <= 2
                  /\ ip # <<>> \/ fp # <<>>
                  /\ ip = <<>> \/ IsDigitGroup(ip)
                  /\ fp = <<>> \/ IsDigitGroup(fp)
    IN  IF body \in {<<"i", "n", "f">>, <<"i", "n", "f", "i", "n", "i", "t", "y">>}
        THEN [ok |-> TRUE, kind |-> "inf", sign |-> SignOf(t), num |-> 0, scale |-> 0]
        ELSE IF body = <<"n", "a", "n">>
        THEN [ok |-> TRUE, kind |-> "nan", sign |-> 1, num |-> 0, scale |-> 0]
        ELSE IF Len(parts) <= 2 /\ exOk /\ mantOk
        THEN LET n == Normal(GroupVal(ip \o fp, 0), GroupDigits(fp) - ex.val)
             IN  [ok |-> TRUE, kind |-> "finite",
                  sign |-> IF n.num = 0 THEN 1 ELSE SignOf(t),
                  num |-> n.num, scale |-> n.scale]
        ELSE bad

RECURSIVE NatToStr(_)
NatToStr(n) ==
    IF n < 10 THEN <<DigitChars[n + 1]>>
    ELSE NatToStr(n \div 10) \o <<DigitChars[(n % 10) + 1]>>

\* str(n) of an int, as an f-string field formats it
IntToStr(n) == IF n < 0 THEN <<"-">> \o NatToStr(-n) ELSE NatToStr(n)

----------------------------------------------------------------------------
(* The file as the iterator of a text file sees it *)

RECURSIVE FirstNewline(_, _)
FirstNewline(s, i) ==
    IF i > Len(s) THEN 0
    ELSE IF s[i] = "\n" THEN i
    ELSE FirstNewline(s, i + 1)

\* The lines `for line in f` hands out: each keeps its "\n"; the last line
\* has none when the file does not end with one.
RECURSIVE Lines(_)
Lines(s) ==
    IF s = <<>> THEN <<>>
    ELSE LET i == FirstNewline(s, 1) IN
         IF i = 0 THEN <<s>>
         ELSE <<SubSeq(s, 1, i)>> \o Lines(SubSeq(s, i + 1, Len(s)))

\* _inspect_file: i starts at 0 and is rebound to the index of each line
InspectFile(f) ==
    LET n == Len(Lines(f))
        i == IF n = 0 THEN 0 ELSE n - 1
    IN  i + 1

----------------------------------------------------------------------------
(* Input files: up to MaxLines lines drawn from LinePool, with or without a *)
(* final newline                                                            *)

RECURSIVE Join(_, _)
Join(fields, d) ==
    IF Len(fields) = 0 THEN <<>>
    ELSE IF Len(fields) = 1 THEN fields[1]
    ELSE fields[1] \o <<d>> \o Join(Tail(fields), d)

Chr1 == <<"c", "h", "r", "1">>

PdbTail == << <<"P">>, <<"A">>, <<"f">>, <<"1">>, <<"2">> >>

Row(chrom, start, end, score) ==
    Join(<<chrom, start, end, score>> \o PdbTail, "\t")

LineV1 == Row(Chr1, <<"1", "0">>, <<"2", "0">>, <<"0", ".", "5">>)

\* the locus of LineV1 with another score and another PDB entry
LineV2 ==
    Join(<<Chr1, <<"1", "0">>, <<"2", "0">>, <<"1", ".", "5", "0">>,
           <<"Q">>, <<"B">>, <<"g">>, <<"3">>, <<"4">> >>, "\t")

\* "chr" inside the chromosome, signed and zero-padded integers, an exponent
LineV3 ==
    Row(<<"c", "c", "h", "r", "h", "r">>, <<"-", "5">>, <<"+", "0", "7">>,
        <<"5", "E", "-", "1">>)

LineComment == <<"#", "x">>

LineEmpty == <<>>

LineSpace == <<" ">>

\* a '#' in front of nine well-formed fields
LineHashRow == <<"#">> \o LineV1

\* white space, then '#', then nine well-formed fields
LineSpaceHashRow == <<" ", "#">> \o LineV1

LineEight == Join(<<Chr1, <<"1", "0">>, <<"2", "0">>, <<"0", ".", "5">>,
                    <<"P">>, <<"A">>, <<"f">>, <<"1">> >>, "\t")

LineTen == LineV1 \o <<"\t", "z">>

\* nine fields, the last one empty: strip() removes the tab before it
LineTrailingTab == LineEight \o <<"\t">>

LineBadStart == Row(Chr1, <<"x">>, <<"2", "0">>, <<"0", ".", "5">>)

LineBadEnd == Row(Chr1, <<"1", "0">>, <<"2", ".", "0">>, <<"0", ".", "5">>)

LineBadScore == Row(Chr1, <<"1", "0">>, <<"2", "0">>, <<"x">>)

LineNanScore == Row(Chr1, <<"1", "0">>, <<"2", "0">>, <<"n", "a", "n">>)

LinePool ==
    {LineV1, LineV2, LineV3, LineComment, LineEmpty, LineSpace, LineHashRow,
     LineSpaceHashRow, LineEight, LineTen, LineTrailingTab, LineBadStart,
     LineBadEnd, LineBadScore, LineNanScore}

RECURSIVE FileOf(_, _)
FileOf(bodies, finalNewline) ==
    IF Len(bodies) = 0 THEN <<>>
    ELSE IF Len(bodies) = 1
         THEN bodies[1] \o (IF finalNewline THEN <<"\n">> ELSE <<>>)
         ELSE bodies[1] \o <<"\n">> \o FileOf(Tail(bodies), finalNewline)

Files ==
    {FileOf(b, nl) : b \in UNION {[1..n -> LinePool] : n \in 0..MaxLines},
                     nl \in BOOLEAN}

----------------------------------------------------------------------------
(* The body of the loop of load_data *)

IsCommentOnly(line) == StartsWith(line, <<"#">>)

\* line 62: the '#' test reads the raw line, the emptiness test the stripped one
IsCommentOrBlank(line) ==
    StartsWith(line, <<"#">>) \/ Strip(line) = <<>>

\* lines 67-68: the fields the tuple assignment unpacks
Fields(line) == Split(Strip(line), DELIMITER)

UnpacksAtLeast(fields) == Len(fields) >= NFields

\* lines 67-69: the assignment raises ValueError unless there are nine fields
Unpacks(fields) == Len(fields) = NFields

CastsIgnoringScore(fields) == PyInt(fields[2]).ok /\ PyInt(fields[3]).ok

\* lines 76-80: replace never raises; int and float raise ValueError
Casts(fields) ==
    PyInt(fields[2]).ok /\ PyInt(fields[3]).ok /\ PyFloat(fields[4]).ok

MakeIdNoPrefix(chrom, start, end) ==
    chrom \o <<":", "g", ".">> \o IntToStr(start) \o <<"_">> \o IntToStr(end)

\* line 85
MakeId(chrom, start, end) ==
    <<"c", "h", "r">> \o chrom \o <<":", "g", ".">> \o IntToStr(start)
        \o <<"_">> \o IntToStr(end)

\* lines 76-106: the document a line that unpacks and casts yields
MakeDoc(fields) ==
    LET chrom == Replace(fields[1], <<"c", "h", "r">>, <<>>)
        start == PyInt(fields[2]).val
        end == PyInt(fields[3]).val
        f == PyFloat(fields[4])
        score == [kind |-> f.kind, sign |-> f.sign, num |-> f.num, scale |-> f.scale]
        variant ==
            [chrom |-> chrom, start |-> start, end |-> end,
             scores |-> << [score |-> score,
                            pdb_id |-> fields[5],
                            pdb_chain |-> fields[6],
                            uniprot_feature_name |-> fields[7],
                            pdb_residue_min |-> fields[8],
                            pdb_residue_max |-> fields[9]] >>]
    IN  ("_id" :> MakeId(chrom, start, end)) @@ (SOURCE_NAME :> variant)

SkipFirst(acc, line) == <<line>> \o acc

\* lines 63, 72, 82: skipped.append(line)
Skip(acc, line) == Append(acc, line)

YieldFirst(sent, doc) == <<doc>> \o sent

RunsOnAfterYield == "running"

\* line 103: the generator is suspended at the yield until the next request
SuspendedAtYield == "suspended"

\* line 103: the consumer receives the document
Yield(sent, doc) == Append(sent, doc)

\* lines 107-109: the summary, then one message per skipped line
Report(acc, total) ==
    << [kind |-> "summary", skipped |-> Len(acc), total |-> total] >>
        \o [k \in DOMAIN acc |-> [kind |-> "skipped line", text |-> Strip(acc[k])]]

----------------------------------------------------------------------------
(* The state machine *)

Init ==
    /\ exists \in BOOLEAN
    /\ file \in (IF exists THEN Files ELSE {<<>>})
    /\ pc = "init"
    /\ rerun = FALSE
    /\ requests = 0
    /\ file_lines = 0
    /\ pos = 0
    /\ count = 0
    /\ skipped = <<>>
    /\ time_left = 0
    /\ out = <<>>
    /\ prevOut = <<>>
    /\ log = <<>>
    /\ outAt = <<>>
    /\ skippedAt = <<>>
    /\ readReq = <<>>

\* load_data(data_folder): the call of a generator function runs none of its
\* body; it makes the generator. The second call is the run over the same file.
Call ==
    /\ pc = "init" \/ (pc = "done" /\ ~rerun)
    /\ pc' = "created"
    /\ rerun' = (pc = "done")
    /\ prevOut' = out
    /\ out' = <<>>
    /\ log' = <<>>
    /\ requests' = 0
    /\ outAt' = <<>>
    /\ skippedAt' = <<>>
    /\ readReq' = <<>>
    /\ UNCHANGED <<exists, file, file_lines, pos, count, skipped, time_left>>

\* next() on the generator: the body runs from its start or from the yield
Request ==
    /\ pc \in {"created", "suspended"}
    /\ pc' = IF pc = "created" THEN "starting" ELSE "running"
    /\ requests' = requests + 1
    /\ UNCHANGED <<exists, file, rerun, file_lines, pos, count, skipped,
                   time_left, out, prevOut, log, outAt, skippedAt, readReq>>

PathExistsAlways(e) == TRUE

\* line 43: os.path.exists(input_file)
PathExists(e) == e

OpenedAtStale(p) == p

\* line 49: a file just opened is at its first line
OpenedAt(p) == 0

\* lines 41-53: the existence check, the pre-pass, the opening of the file
Open ==
    /\ pc = "starting"
    /\ IF ~PathExists(exists)
       THEN /\ pc' = "raised"
            /\ log' = Append(log, [kind |-> "not found"])
            /\ UNCHANGED <<file_lines, pos, count, skipped>>
       ELSE /\ pc' = "running"
            /\ file_lines' = InspectFile(file)
            /\ log' = Append(log, [kind |-> "total lines", total |-> InspectFile(file)])
            /\ pos' = OpenedAt(pos)
            /\ count' = 0
            /\ skipped' = <<>>
    /\ UNCHANGED <<exists, file, rerun, requests, time_left, out, prevOut,
                   outAt, skippedAt, readReq>>

\* lines 54-106: one iteration of the loop, up to its continue or its yield.
\* elapsed is time.time() - start_time, which the clock decides; time_left is
\* elapsed * (1 - ratio) / ratio with ratio = count / file_lines, kept in
\* whole seconds.
ReadLine ==
    /\ pc = "running"
    /\ pos < Len(Lines(file))
    /\ \E elapsed \in 0..MaxElapsed :
        LET line == Lines(file)[pos + 1]
            n == count + 1
            left == (elapsed * (file_lines - n)) \div n
            progress ==
                IF n % ProgressEvery = 0
                THEN << [kind |-> "progress", line |-> n, skipped |-> Len(skipped),
                         time_left |-> left] >>
                ELSE <<>>
            fields == Fields(line)
        IN  /\ pos' = pos + 1
            /\ count' = n
            /\ time_left' = left
            /\ readReq' = Append(readReq, requests)
            /\ IF IsCommentOrBlank(line)
               THEN /\ skipped' = Skip(skipped, line)
                    /\ skippedAt' = Append(skippedAt, n)
                    /\ log' = log \o progress
                    /\ UNCHANGED <<pc, out, outAt>>
               ELSE IF ~Unpacks(fields)
               THEN /\ skipped' = Skip(skipped, line)
                    /\ skippedAt' = Append(skippedAt, n)
                    /\ log' = log \o progress
                                  \o << [kind |-> "failed to unpack", line |-> n] >>
                    /\ UNCHANGED <<pc, out, outAt>>
               ELSE IF ~Casts(fields)
               THEN /\ skipped' = Skip(skipped, line)
                    /\ skippedAt' = Append(skippedAt, n)
                    /\ log' = log \o progress
                                  \o << [kind |-> "failed to cast", line |-> n] >>
                    /\ UNCHANGED <<pc, out, outAt>>
               ELSE /\ out' = Yield(out, MakeDoc(fields))
                    /\ outAt' = Append(outAt, n)
                    /\ pc' = SuspendedAtYield
                    /\ log' = log \o progress
                    /\ UNCHANGED <<skipped, skippedAt>>
    /\ UNCHANGED <<exists, file, rerun, requests, file_lines, prevOut>>

\* lines 107-109: the file is exhausted; the generator reports and finishes
Finish ==
    /\ pc = "running"
    /\ pos = Len(Lines(file))
    /\ pc' = "done"
    /\ log' = log \o Report(skipped, file_lines)
    /\ UNCHANGED <<exists, file, rerun, requests, file_lines, pos, count,
                   skipped, time_left, out, prevOut, outAt, skippedAt, readReq>>

Next == Call \/ Request \/ Open \/ ReadLine \/ Finish

Spec == Init /\ [][Next]_vars

----------------------------------------------------------------------------
(* Vocabulary of the properties *)

\* the generator has started its loop over the file
Active == pc \in {"running", "suspended", "done"}

Input == Lines(file)

\* the lines the loop has read so far
ReadSoFar == IF Active THEN 1..count ELSE {}

RecordsOf(i) == {k \in DOMAIN outAt : outAt[k] = i}

SkipsOf(i) == {k \in DOMAIN skippedAt : skippedAt[k] = i}

ErrorsOf(i) ==
    {k \in DOMAIN log : log[k].kind \in {"failed to unpack", "failed to cast"}
                          /\ log[k].line = i}

Trimmed(line) == Strip(line)

TabCount(s) == Cardinality({i \in DOMAIN s : s[i] = "\t"})

\* the trimmed line has nine tab-separated fields
NineFields(line) == TabCount(Trimmed(line)) = NFields - 1

FieldOf(line, k) == Split(Trimmed(line), "\t")[k]

RawComment(line) == line # <<>> /\ line[1] = "#"

TrimmedComment(line) == Trimmed(line) # <<>> /\ Trimmed(line)[1] = "#"

Blank(line) == Trimmed(line) = <<>>

\* s with the occurrences of "chr" removed, read from the left
RECURSIVE WithoutChr(_)
WithoutChr(s) ==
    IF Len(s) < 3 THEN s
    ELSE IF s[1] = "c" /\ s[2] = "h" /\ s[3] = "r"
         THEN WithoutChr(SubSeq(s, 4, Len(s)))
         ELSE <<s[1]>> \o WithoutChr(Tail(s))

Parseable(line) ==
    LET f == Split(Trimmed(line), "\t") IN
    /\ NineFields(line)
    /\ PyInt(f[2]).ok
    /\ PyInt(f[3]).ok
    /\ PyFloat(f[4]).ok

ExpectedId(line) ==
    LET f == Split(Trimmed(line), "\t") IN
    <<"c", "h", "r">> \o WithoutChr(f[1]) \o <<":", "g", ".">>
        \o IntToStr(PyInt(f[2]).val) \o <<"_">> \o IntToStr(PyInt(f[3]).val)

VariantOf(doc) == doc[SOURCE_NAME]

IdFromLocusOnly ==
    \A j, k \in DOMAIN out :
        (/\ VariantOf(out[j]).chrom = VariantOf(out[k]).chrom
         /\ VariantOf(out[j]).start = VariantOf(out[k]).start
         /\ VariantOf(out[j]).end = VariantOf(out[k]).end)
        => out[j]["_id"] = out[k]["_id"]

OneRecordWithId(i, line) ==
    /\ Cardinality(RecordsOf(i)) = 1
    /\ \A k \in RecordsOf(i) : out[k]["_id"] = ExpectedId(line)

----------------------------------------------------------------------------
(* C1 *)

\* C1 as stated: every line read whose trimmed text has nine fields with an
\* int() start and end and a float() score has exactly one record, whose id is
\* chr{chrom without "chr"}:g.{start}_{end}; records of one locus share the id.
C1_AsStated ==
    LET L == Input IN
    /\ \A i \in ReadSoFar : Parseable(L[i]) => OneRecordWithId(i, L[i])
    /\ IdFromLocusOnly

\* C1 amended: the same, for the lines whose first character is not '#'.
C1_OneRecordWithDerivedId ==
    LET L == Input IN
    /\ \A i \in ReadSoFar :
           (Parseable(L[i]) /\ ~RawComment(L[i])) => OneRecordWithId(i, L[i])
    /\ IdFromLocusOnly

\* two lines of one locus, with different scores, gave two records with one id
C1_Witness ==
    /\ pc = "done"
    /\ Len(out) = 2
    /\ out[1]["_id"] = out[2]["_id"]
    /\ VariantOf(out[1]).scores # VariantOf(out[2]).scores

----------------------------------------------------------------------------
(* C2 *)

NoRecordOneSkipNoParse(i) ==
    /\ RecordsOf(i) = {}
    /\ Cardinality(SkipsOf(i)) = 1
    /\ ErrorsOf(i) = {}

\* C2 as stated: a line that starts with '#' after trimming, or is empty after
\* trimming, gives no record, is not parsed further, and is recorded as skipped.
C2_AsStated ==
    LET L == Input IN
    \A i \in ReadSoFar :
        (TrimmedComment(L[i]) \/ Blank(L[i])) => NoRecordOneSkipNoParse(i)

\* C2 amended: a line whose first character, untrimmed, is '#', or that is empty
\* after trimming, gives no record, is not parsed further, and is recorded as
\* skipped.
C2_CommentOrBlankSkipped ==
    LET L == Input IN
    \A i \in ReadSoFar :
        (RawComment(L[i]) \/ Blank(L[i])) => NoRecordOneSkipNoParse(i)

\* a comment and a blank line were read and skipped
C2_Witness ==
    LET L == Input IN
    /\ pc = "done"
    /\ Len(L) = 2
    /\ RawComment(L[1])
    /\ Blank(L[2])
    /\ skippedAt = <<1, 2>>

----------------------------------------------------------------------------
(* C3 *)

DenotesInteger(s) == PyInt(s).ok

\* the text denotes a decimal number: float() accepts it with a finite value
DenotesDecimal(s) == PyFloat(s).ok /\ PyFloat(s).kind = "finite"

\* C3: every record delivered has an integer start and end and a decimal score;
\* a line that is no comment, has nine fields, and whose start, end or score is
\* not numeric gives no record and is recorded as skipped exactly once.
C3_AsStated ==
    LET L == Input IN
    /\ \A k \in DOMAIN out :
           /\ VariantOf(out[k]).start \in Int
           /\ VariantOf(out[k]).end \in Int
           /\ VariantOf(out[k]).scores[1].score.kind = "finite"
    /\ \A i \in ReadSoFar :
           (/\ ~RawComment(L[i])
            /\ NineFields(L[i])
            /\ \/ ~DenotesInteger(FieldOf(L[i], 2))
               \/ ~DenotesInteger(FieldOf(L[i], 3))
               \/ ~DenotesDecimal(FieldOf(L[i], 4)))
           => (RecordsOf(i) = {} /\ Cardinality(SkipsOf(i)) = 1)

----------------------------------------------------------------------------
(* C4 *)

FieldCountMismatch(line) ==
    ~RawComment(line) /\ ~Blank(line) /\ ~NineFields(line)

\* C4: a line that is neither comment nor blank and whose trimmed text does not
\* have nine fields gives no record and is recorded as skipped once; the loop
\* goes on after it and ends only when every line has been read.
C4_FieldCountMismatchSkipped ==
    LET L == Input IN
    /\ \A i \in ReadSoFar :
           FieldCountMismatch(L[i])
           => (RecordsOf(i) = {} /\ Cardinality(SkipsOf(i)) = 1)
    /\ (Active /\ count >= 1 /\ FieldCountMismatch(L[count]))
           => pc \in {"running", "done"}
    /\ pc = "done" => count = Len(L)
    /\ pc = "running" => pos <= Len(L)

\* a line of ten fields was skipped and the line after it gave a record
C4_Witness ==
    LET L == Input IN
    /\ Active
    /\ Len(L) = 2
    /\ TabCount(Trimmed(L[1])) = NFields
    /\ skippedAt = <<1>>
    /\ outAt = <<2>>

----------------------------------------------------------------------------
(* C5 *)

\* C5: when the generator is exhausted, the lines recorded as skipped plus the
\* records delivered are as many as the total the pre-pass counted, and every
\* line is one or the other.
C5_AsStated ==
    LET L == Input IN
    pc = "done" =>
        /\ Len(skipped) + Len(out) = file_lines
        /\ \A i \in 1..Len(L) :
               Cardinality(SkipsOf(i)) + Cardinality(RecordsOf(i)) = 1

----------------------------------------------------------------------------
(* C6 *)

\* C6 as stated: with the input file missing, the error is raised by the call
\* of load_data, before the first request, nothing counted, read or delivered.
C6_AsStated ==
    (~exists /\ pc # "init") =>
        /\ pc = "raised"
        /\ requests = 0
        /\ readReq = <<>>
        /\ out = <<>>

\* C6 amended: with the input file missing, the call raises nothing; the first
\* request raises the error, with no line counted or read and no record
\* delivered, and nothing runs after it. An existing file never raises.
C6_MissingFileRaisesOnFirstRequest ==
    /\ ~exists =>
           /\ pc \in {"init", "created", "starting", "raised"}
           /\ pc \in {"init", "created", "starting"} => log = <<>>
           /\ pc = "raised" =>
                  /\ requests = 1
                  /\ log = << [kind |-> "not found"] >>
                  /\ ~ENABLED Next
           /\ file_lines = 0 /\ pos = 0 /\ count = 0
           /\ readReq = <<>>
           /\ out = <<>>
    /\ exists => pc # "raised"

C6_Witness == ~exists /\ pc = "raised"

----------------------------------------------------------------------------
(* C7 *)

StrictlyIncreasing(s) == \A j, k \in DOMAIN s : j < k => s[j] < s[k]

----------------------------------------------------------------------------
(* C8 *)

IsPrefix(s, t) == Len(s) <= Len(t) /\ s = SubSeq(t, 1, Len(s))

\* C8: the second run over the same file delivers the records of the first
\* run, in the same order.
C8_SecondRunSameRecords ==
    rerun =>
        /\ IsPrefix(out, prevOut)
        /\ pc = "done" => out = prevOut

\* a second run that skipped a line and delivered a record has finished
C8_Witness ==
    /\ rerun
    /\ pc = "done"
    /\ out # <<>>
    /\ skipped # <<>>

----------------------------------------------------------------------------
(* C9 *)

YieldsBefore(i) == {k \in DOMAIN outAt : outAt[k] < i}

C9_State ==
    /\ pc \in {"init", "created"} => (readReq = <<>> /\ log = <<>> /\ out = <<>>)
    /\ requests <= Len(out) + 1
    /\ \A i \in DOMAIN readReq : readReq[i] = Cardinality(YieldsBefore(i)) + 1
    /\ Active => Len(readReq) = count
    /\ pc = "suspended" =>
           /\ requests = Len(out)
           /\ Len(readReq) = outAt[Len(outAt)]

\* the only step of a suspended generator is a request, which reads nothing
C9_SuspendedStep ==
    pc = "suspended" =>
        /\ pc' = "running"
        /\ requests' = requests + 1
        /\ <<pos, count, readReq, out, skipped, log>>' =
               <<pos, count, readReq, out, skipped, log>>

----------------------------------------------------------------------------
(* C10 *)

IsDiagnostic(e) == e.kind \in {"summary", "skipped line"}

Diagnostics == SelectSeq(log, IsDiagnostic)

ExpectedReport(L) ==
    << [kind |-> "summary", skipped |-> Len(skippedAt), total |-> file_lines] >>
        \o [k \in DOMAIN skippedAt |->
               [kind |-> "skipped line", text |-> Trimmed(L[skippedAt[k]])]]

\* C10: skipped holds the raw skipped lines in input order, each once; the
\* summary and the per-line diagnostics are logged only when the file is
\* exhausted, after every record, one diagnostic per skipped line in that order.
C10_SkippedInOrderReportedAtEnd ==
    LET L == Input IN
    Active =>
        /\ Len(skipped) = Len(skippedAt)
        /\ StrictlyIncreasing(skippedAt)
        /\ \A k \in DOMAIN skipped :
               skippedAt[k] \in ReadSoFar /\ skipped[k] = L[skippedAt[k]]
        /\ pc # "done" => Diagnostics = <<>>
        /\ pc = "done" =>
               /\ count = Len(L)
               /\ \A i \in 1..Len(L) :
                      Cardinality(SkipsOf(i)) = (IF RecordsOf(i) = {} THEN 1 ELSE 0)
               /\ Diagnostics = ExpectedReport(L)
               /\ SubSeq(log, Len(log) - Len(skipped), Len(log)) = ExpectedReport(L)

\* two different lines were skipped and the run has ended
C10_Witness ==
    /\ pc = "done"
    /\ Len(skipped) = 2
    /\ skipped[1] # skipped[2]

====
